---- MODULE Spec2Model ----
(***************************************************************************)
(* wpreddit/download.py: download_image, set_image_title, save_info,       *)
(* remove_tags and pure_pil_alpha_to_color_v2 as a state machine.          *)
(*                                                                         *)
(* Strings are sequences of one-character strings.  Coordinates are kept   *)
(* in half pixels (the value times two), because line 68 and line 75       *)
(* divide by 2 with Python 3's true division.                              *)
(***************************************************************************)
EXTENDS Integers, Sequences, FiniteSets, TLC

VARIABLES
    pc,              \* position of the invocation
    title,           \* title argument (set_image_title, remove_tags, save_info)
    clean,           \* value returned by remove_tags
    gravity,         \* gravity argument of set_image_title
    padding,         \* padding argument <<px, py>>
    fontsize,        \* fontsize argument
    images,          \* the image objects that exist, by identity
    img,             \* identity of the image passed to set_image_title
    ret_img,         \* identity of the image returned (0: none)
    text_size,       \* <<text_x, text_y>> measured by font.getsize
    title_top_left,  \* <<title_top_left_x, title_top_left_y>>, in half pixels
    anchor,          \* <<horizontal, vertical>>: the branches lines 63-75 took
    calls,           \* number of set_image_title calls made
    first,           \* gravity and anchor of the first call, once respelt
    target,          \* <<width, height>> the caller resizes to
    source,          \* what the URL serves: an image, or nothing decodable
    files,           \* basepath: file name -> content, "absent" if not there
    exit_status      \* status the process exited with (-1: still running)

vars == <<pc, title, clean, gravity, padding, fontsize, images, img, ret_img,
          text_size, title_top_left, anchor, calls, first, target, source,
          files, exit_status>>

----------------------------------------------------------------------------
(* Bounds of the model *)

MaxTitleLen == 4
MaxFrags == 3
MaxCanvas == 2
MaxPad == 1
MaxCalls == 2
MaxRespell == 2
MaxPixels == 2

----------------------------------------------------------------------------
(* Strings *)

Whitespace == {" ", "\t", "\n"}

UpperCase == {"L", "E", "F", "T", "R", "I", "G", "H", "O", "P", "B", "M"}

ToLower ==
    [c \in UpperCase |->
        CASE c = "L" -> "l" [] c = "E" -> "e" [] c = "F" -> "f" [] c = "T" -> "t"
          [] c = "R" -> "r" [] c = "I" -> "i" [] c = "G" -> "g" [] c = "H" -> "h"
          [] c = "O" -> "o" [] c = "P" -> "p" [] c = "B" -> "b" [] c = "M" -> "m"]

\* str.lower()
lower(s) == [i \in 1..Len(s) |-> IF s[i] \in UpperCase THEN ToLower[s[i]] ELSE s[i]]

\* str.replace(' ', '')
replace_spaces(s) == SelectSeq(s, LAMBDA c : c # " ")

RECURSIVE lstrip(_)
lstrip(s) == IF s # <<>> /\ Head(s) \in Whitespace THEN lstrip(Tail(s)) ELSE s

RECURSIVE rstrip(_)
rstrip(s) ==
    IF s # <<>> /\ s[Len(s)] \in Whitespace THEN rstrip(SubSeq(s, 1, Len(s) - 1)) ELSE s

\* str.strip()
strip(s) == rstrip(lstrip(s))

\* the Python test  w in s
Contains(s, w) ==
    \E i \in 0..(Len(s) - Len(w)) : \A k \in 1..Len(w) : s[i + k] = w[k]

RECURSIVE StringsUpTo(_, _)
StringsUpTo(chars, n) ==
    IF n = 0 THEN {<<>>}
    ELSE LET shorter == StringsUpTo(chars, n - 1)
         IN  shorter \cup {Append(s, c) : s \in shorter, c \in chars}

----------------------------------------------------------------------------
(* remove_tags *)

Openers == {"[", "(", "<"}
Closers == {"]", ")", ">"}

\* Whether the pattern lets a span opened by o end at c: the two character
\* classes of line 105 are independent, any closer ends any opener.
SpanCloses(o, c) == c \in Closers

\* The end of the match of  [\[\(\<].*?[\]\)\>]  that starts at i, 0 if there
\* is none: the nearest closer after i, with no newline before it ('.' does
\* not match a newline).
MatchEnd(s, i) ==
    IF s[i] \notin Openers THEN 0
    ELSE LET ends == {j \in (i + 1)..Len(s) :
                        /\ SpanCloses(s[i], s[j])
                        /\ \A m \in (i + 1)..(j - 1) : s[m] # "\n"}
         IN  IF ends = {} THEN 0
             ELSE CHOOSE j \in ends : \A j2 \in ends : j <= j2

\* re.sub(pattern, "", s): leftmost matches, scanned left to right from i
RECURSIVE SubTags(_, _)
SubTags(s, i) ==
    IF i > Len(s) THEN <<>>
    ELSE LET j == MatchEnd(s, i)
         IN  IF j = 0 THEN <<s[i]>> \o SubTags(s, i + 1)
             ELSE SubTags(s, j + 1)

\* re.sub(' +', ' ', s)
RECURSIVE CollapseSpaces(_)
CollapseSpaces(s) ==
    IF Len(s) < 2 THEN s
    ELSE IF s[1] = " " /\ s[2] = " " THEN CollapseSpaces(Tail(s))
    ELSE <<s[1]>> \o CollapseSpaces(Tail(s))

\* remove_tags gone wrong: the final strip() left out
remove_tags_unstripped(s) == CollapseSpaces(SubTags(s, 1))

remove_tags(s) == strip(CollapseSpaces(SubTags(s, 1)))

----------------------------------------------------------------------------
(* Images *)

\* An image object: its mode, its size <<width, height>>, its pixel data (a
\* sequence of pixels where the pixels matter, a name for the content where
\* they do not) and the text drawn onto it, oldest first.
NewImage(mode, size, data) ==
    [mode |-> mode, size |-> size, data |-> data, text |-> <<>>]

\* image_copy gone wrong: the same object handed back instead of a copy
image_copy_alias(heap, id) == [heap |-> heap, id |-> id]

\* Image.copy(): a new object with the same content.  heap is the sequence of
\* existing images; the result is the new heap and the copy's identity.
image_copy(heap, id) ==
    [heap |-> Append(heap, heap[id]), id |-> Len(heap) + 1]

\* A string puts ink on the canvas when it has a character with a glyph
\* outline; the space has none.
Inks(text) == \E i \in 1..Len(text) : text[i] # " "

\* ImageDraw.text(xy, text, font, fill) on image im; xy in half pixels.
DrawText(im, xy, text, fill) ==
    IF Inks(text)
    THEN [im EXCEPT !.text = Append(@, [xy |-> xy, text |-> text, fill |-> fill])]
    ELSE im

\* font.getsize(text) for the font loaded at size fontsize: the width and the
\* height of the rendered string.  The font's metrics are taken as an advance
\* of fontsize / 2 per character and a line height of fontsize.
GetSize(text, size) ==
    IF text = <<>> THEN <<0, 0>> ELSE <<Len(text) * (size \div 2), size>>

ShadowFill == <<0, 0, 0, 127>>
DefaultFill == "default"

----------------------------------------------------------------------------
(* set_image_title *)

\* line 53 gone wrong: replace(' ', '') left out
normalize_gravity_spaces_kept(g) == strip(lower(g))

\* line 53
normalize_gravity(g) == strip(replace_spaces(lower(g)))

kw_left == <<"l", "e", "f", "t">>
kw_right == <<"r", "i", "g", "h", "t">>
kw_top == <<"t", "o", "p">>
kw_bottom == <<"b", "o", "t", "t", "o", "m">>

\* lines 63-68 gone wrong: "right" tested before "left"
HorizontalAnchor_right_first(g) ==
    IF Contains(g, kw_right) THEN "right"
    ELSE IF Contains(g, kw_left) THEN "left"
    ELSE "center"

\* lines 63-68: the branch taken for the x location
HorizontalAnchor(g) ==
    IF Contains(g, kw_left) THEN "left"
    ELSE IF Contains(g, kw_right) THEN "right"
    ELSE "center"

\* lines 70-75: the branch taken for the y location
VerticalAnchor(g) ==
    IF Contains(g, kw_top) THEN "top"
    ELSE IF Contains(g, kw_bottom) THEN "bottom"
    ELSE "center"

\* lines 64-68 gone wrong: the padding subtracted on the centered axis too
TitleTopLeftX_padded_center(h, cw, text_x, px) ==
    CASE h = "left" -> 2 * px
      [] h = "right" -> 2 * (cw - text_x - px)
      [] OTHER -> cw - text_x - 2 * px

\* lines 64, 66, 68: title_top_left_x, in half pixels
TitleTopLeftX(h, cw, text_x, px) ==
    CASE h = "left" -> 2 * px
      [] h = "right" -> 2 * (cw - text_x - px)
      [] OTHER -> cw - text_x

\* lines 71, 73, 75: title_top_left_y, in half pixels
TitleTopLeftY(v, ch, text_y, py) ==
    CASE v = "top" -> 2 * py
      [] v = "bottom" -> 2 * (ch - text_y - py)
      [] OTHER -> ch - text_y

set_image_title ==
    /\ pc = "caption"
    /\ LET t == remove_tags(title)
           g == normalize_gravity(gravity)
           c == image_copy(images, img)
           size == c.heap[c.id].size
           ts == GetSize(t, fontsize)
           h == HorizontalAnchor(g)
           v == VerticalAnchor(g)
           x == TitleTopLeftX(h, size[1], ts[1], padding[1])
           y == TitleTopLeftY(v, size[2], ts[2], padding[2])
           shadowed == DrawText(c.heap[c.id], <<x + 4, y + 4>>, t, ShadowFill)
           drawn == DrawText(shadowed, <<x, y>>, t, DefaultFill)
       IN  /\ images' = [c.heap EXCEPT ![c.id] = drawn]
           /\ ret_img' = c.id
           /\ clean' = t
           /\ text_size' = ts
           /\ title_top_left' = <<x, y>>
           /\ anchor' = <<h, v>>
    /\ calls' = calls + 1
    /\ pc' = "captioned"
    /\ UNCHANGED <<title, gravity, padding, fontsize, img, first, target, source,
                   files, exit_status>>

----------------------------------------------------------------------------
(* download_image and pure_pil_alpha_to_color_v2 *)

\* PIL's DIV255, the rounding division by 255 of its blend
Div255(a) == LET t == a + 128 IN ((t \div 256) + t) \div 256

\* PIL's BLEND8: in1 where the mask is 0, in2 where it is 255
Blend8(mask, in1, in2) == Div255(in1 * (255 - mask) + in2 * mask)

\* Image.convert('RGB'): an RGBA pixel keeps its r, g, b and loses its alpha
convert_rgb(im) ==
    IF im.mode = "RGBA"
    THEN [im EXCEPT !.mode = "RGB",
                    !.data = [i \in 1..Len(im.data) |->
                                 <<im.data[i][1], im.data[i][2], im.data[i][3]>>]]
    ELSE im

\* lines 113-117: a new RGB image filled with color, the RGBA image pasted
\* onto it with its alpha band as the mask
pure_pil_alpha_to_color_v2(image, color) ==
    [image EXCEPT !.mode = "RGB",
                  !.data = [i \in 1..Len(image.data) |->
                               [k \in 1..3 |->
                                   Blend8(image.data[i][4], color[k], image.data[i][k])]]]

White == <<255, 255, 255>>

\* lines 20-24: the image download_image returns for a decodable source
Downloaded(src) ==
    LET im == convert_rgb(NewImage(src.mode, src.size, src.data))
    IN  IF im.mode = "RGBA" THEN pure_pil_alpha_to_color_v2(im, White) ELSE im

\* lines 15-24: the source was fetched and decoded
download_ok ==
    /\ pc = "download"
    /\ source.kind = "image"
    /\ images' = <<Downloaded(source)>>
    /\ img' = 1
    /\ pc' = "resize"
    /\ UNCHANGED <<title, clean, gravity, padding, fontsize, ret_img, text_size,
                   title_top_left, anchor, calls, first, target, source, files,
                   exit_status>>

\* lines 25-27 gone wrong: the error logged and None returned to the caller
download_error_swallowed ==
    /\ pc = "download"
    /\ source.kind # "image"
    /\ pc' = "resize"
    /\ UNCHANGED <<title, clean, gravity, padding, fontsize, images, img, ret_img,
                   text_size, title_top_left, anchor, calls, first, target,
                   source, files, exit_status>>

\* lines 25-27: requests.get or Image.open raised an IOError; sys.exit(1)
download_error ==
    /\ pc = "download"
    /\ source.kind # "image"
    /\ pc' = "exited"
    /\ exit_status' = 1
    /\ UNCHANGED <<title, clean, gravity, padding, fontsize, images, img, ret_img,
                   text_size, title_top_left, anchor, calls, first, target,
                   source, files>>

download_image == download_ok \/ download_error

\* lines 34-37: ImageOps.fit gives a new image of exactly the size asked for;
\* its pixels are the resampled crop of the old ones
resize_image ==
    /\ pc = "resize"
    /\ LET old == images[img]
           new == [old EXCEPT !.size = target,
                              !.data = <<"fit", old.size, old.data>>]
       IN  /\ images' = Append(images, new)
           /\ img' = Len(images) + 1
    /\ pc' = "caption"
    /\ UNCHANGED <<title, clean, gravity, padding, fontsize, ret_img, text_size,
                   title_top_left, anchor, calls, first, target, source, files,
                   exit_status>>

----------------------------------------------------------------------------
(* save_info *)

Url == <<"u", "r", "l">>
Permalink == <<"l", "i", "n", "k">>

FileNames == {"url.txt", "title.txt", "permalink.txt"}

\* lines 93-98 gone wrong: the files written in the opposite order
WriteOrder_reversed == <<"permalink.txt", "title.txt", "url.txt">>

\* lines 93-98: the order the three files are opened and written in
WriteOrder == <<"url.txt", "title.txt", "permalink.txt">>

Record(f) ==
    CASE f = "url.txt" -> Url
      [] f = "title.txt" -> title
      [] f = "permalink.txt" -> Permalink

\* The files after the first n of the six steps (open, write, open, write,
\* open, write) have completed: open(path, 'w') creates or truncates the
\* file, write puts the record into it.
FilesAfter(fs, n) ==
    [f \in FileNames |->
        LET k == CHOOSE i \in 1..3 : WriteOrder[i] = f
        IN  IF n >= 2 * k THEN [exists |-> TRUE, content |-> Record(f)]
            ELSE IF n = 2 * k - 1 THEN [exists |-> TRUE, content |-> <<>>]
            ELSE fs[f]]

\* lines 87-98: all six steps complete
save_info_ok ==
    /\ pc = "captioned"
    /\ files' = FilesAfter(files, 6)
    /\ pc' = "saved"
    /\ UNCHANGED <<title, clean, gravity, padding, fontsize, images, img, ret_img,
                   text_size, title_top_left, anchor, calls, first, target,
                   source, exit_status>>

\* lines 87-98: step n + 1 raises (the open or the write fails); nothing
\* catches it, the steps before it stay done and the process ends
save_info_error ==
    /\ pc = "captioned"
    /\ \E n \in 0..5 : files' = FilesAfter(files, n)
    /\ pc' = "exited"
    /\ exit_status' = 1
    /\ UNCHANGED <<title, clean, gravity, padding, fontsize, images, img, ret_img,
                   text_size, title_top_left, anchor, calls, first, target,
                   source>>

save_info == save_info_ok \/ save_info_error

----------------------------------------------------------------------------
(* remove_tags called on its own *)

remove_tags_call ==
    /\ pc = "remove_tags"
    /\ clean' = remove_tags(title)
    /\ pc' = "returned"
    /\ UNCHANGED <<title, gravity, padding, fontsize, images, img, ret_img,
                   text_size, title_top_left, anchor, calls, first, target,
                   source, files, exit_status>>

----------------------------------------------------------------------------
(* The callers and the inputs *)

NoFirst == [set |-> FALSE, gravity |-> <<>>, anchor |-> <<"none", "none">>]
NoSource == [kind |-> "none", mode |-> "none", size |-> <<0, 0>>, data |-> <<>>]
NoFiles == [f \in FileNames |-> [exists |-> FALSE, content |-> <<>>]]
OldFiles == [f \in FileNames |-> [exists |-> TRUE, content |-> <<"o", "l", "d">>]]

\* nothing has been called yet
NothingCalled ==
    /\ clean = <<>>
    /\ ret_img = 0
    /\ text_size = <<0, 0>>
    /\ title_top_left = <<0, 0>>
    /\ anchor = <<"none", "none">>
    /\ calls = 0
    /\ first = NoFirst
    /\ exit_status = -1

\* no download and no files are involved
NoPipeline ==
    /\ target = <<1, 1>>
    /\ source = NoSource
    /\ files = NoFiles

CanvasSizes == {<<200, 100>>} \cup ((1..MaxCanvas) \X (1..MaxCanvas))
Pads == {<<10, 10>>} \cup ((0..MaxPad) \X (0..MaxPad))
FontSizes == {1, 2, 20}

T_a == <<"a">>
T_Title == <<"T", "i", "t", "l", "e">>

\* the normalized gravities, each with the anchors it names, and the
\* example "BOTTOM right"
GravityTable ==
    {[g |-> <<"l", "e", "f", "t">>, h |-> "left", v |-> "center"],
     [g |-> <<"r", "i", "g", "h", "t">>, h |-> "right", v |-> "center"],
     [g |-> <<"t", "o", "p">>, h |-> "center", v |-> "top"],
     [g |-> <<"b", "o", "t", "t", "o", "m">>, h |-> "center", v |-> "bottom"],
     [g |-> <<"c", "e", "n", "t", "e", "r">>, h |-> "center", v |-> "center"],
     [g |-> <<>>, h |-> "center", v |-> "center"],
     [g |-> <<"t", "o", "p", "l", "e", "f", "t">>, h |-> "left", v |-> "top"],
     [g |-> <<"t", "o", "p", "r", "i", "g", "h", "t">>, h |-> "right", v |-> "top"],
     [g |-> <<"b", "o", "t", "t", "o", "m", "l", "e", "f", "t">>, h |-> "left", v |-> "bottom"],
     [g |-> <<"b", "o", "t", "t", "o", "m", "r", "i", "g", "h", "t">>, h |-> "right", v |-> "bottom"],
     [g |-> <<"c", "e", "n", "t", "e", "r", "r", "i", "g", "h", "t">>, h |-> "right", v |-> "center"],
     [g |-> <<"B", "O", "T", "T", "O", "M", " ", "r", "i", "g", "h", "t">>, h |-> "right", v |-> "bottom"]}

GravityFrags ==
    {<<"l", "e", "f", "t">>,
     <<"r", "i", "g", "h", "t">>,
     <<"t", "o", "p">>,
     <<"b", "o", "t", "t", "o", "m">>,
     <<"c", "e", "n", "t", "e", "r">>,
     <<"b", "a", "n", "a", "n", "a">>,
     <<"L", "E", "F", "T">>,
     <<"B", "o", "t", "t", "o", "m">>,
     <<" ">>,
     <<"\t">>,
     <<"l", "e">>,
     <<"f", "t">>}

RECURSIVE FragStrings(_)
FragStrings(n) ==
    IF n = 0 THEN {<<>>}
    ELSE LET shorter == FragStrings(n - 1)
         IN  shorter \cup {s \o f : s \in shorter, f \in GravityFrags}

BaseGravities ==
    {<<"l", "e", "f", "t">>,
     <<"t", "o", "p", "r", "i", "g", "h", "t">>,
     <<"B", "o", "t", "t", "o", "m">>,
     <<"b", "a", "n", "a", "n", "a">>}

LowerCase == {ToLower[c] : c \in UpperCase}
ToUpper == [c \in LowerCase |-> CHOOSE u \in UpperCase : ToLower[u] = c]

\* the spellings one edit away from g: a whitespace character put in
\* anywhere, or the case of one letter changed
Respellings(g) ==
    {SubSeq(g, 1, i) \o <<w>> \o SubSeq(g, i + 1, Len(g)) :
        i \in 0..Len(g), w \in Whitespace}
    \cup {[g EXCEPT ![i] = ToUpper[g[i]]] : i \in {k \in 1..Len(g) : g[k] \in LowerCase}}
    \cup {[g EXCEPT ![i] = ToLower[g[i]]] : i \in {k \in 1..Len(g) : g[k] \in UpperCase}}

TitleChars == {"a", " ", "\t", "\n", "[", "]", "(", ")", "<", ">"}

TagExamples ==
    {<<"M", "y", " ", "T", "i", "t", "l", "e", " ", "[", "H", "D", "]", " ", "(", "2", "0", "2", "0", ")">>,
     <<"<", "t", "a", "g", ">", "M", "i", "x", "e", "d", "[", "x", "]", "(", "y", ")", " ", " ", "s", "p", "a", "c", "i", "n", "g">>,
     <<"L", "a", "k", "e", " ", "(", "2", "0", "2", "0", " ", "[", "H", "D", "]", ")">>}

TitleInputs ==
    {<<>>,
     <<" ">>,
     <<"\t", " ", "\n">>,
     <<"a">>,
     <<"a", " ", "b">>,
     <<"[", "x", "]">>}

TitleGravities ==
    {<<"t", "o", "p", "l", "e", "f", "t">>,
     <<"c", "e", "n", "t", "e", "r">>,
     <<"b", "o", "t", "t", "o", "m", " ", "r", "i", "g", "h", "t">>}

TitlePads == {<<0, 0>>, <<10, 10>>}

SourceColors == {<<10, 20, 30>>, <<255, 255, 255>>}
Alphas == {0, 128, 255}
RGBAPixels == {c \o <<a>> : c \in SourceColors, a \in Alphas}

SourceImages ==
    UNION {{[kind |-> "image", mode |-> "RGBA", size |-> <<n, 1>>, data |-> d] :
                d \in [1..n -> RGBAPixels]}
           \cup {[kind |-> "image", mode |-> "RGB", size |-> <<n, 1>>, data |-> d] :
                d \in [1..n -> SourceColors]} : n \in 1..MaxPixels}

Sources ==
    SourceImages
    \cup {[NoSource EXCEPT !.kind = k] : k \in {"unreachable", "undecodable"}}

\* the caller calls set_image_title again with another spelling of the gravity
respell ==
    /\ pc = "captioned"
    /\ calls <= MaxRespell
    /\ gravity' \in Respellings(gravity)
    /\ first' = IF first.set THEN first
                ELSE [set |-> TRUE, gravity |-> gravity, anchor |-> anchor]
    /\ pc' = "caption"
    /\ UNCHANGED <<title, clean, padding, fontsize, images, img, ret_img, text_size,
                   title_top_left, anchor, calls, target, source, files,
                   exit_status>>

\* the caller calls set_image_title on the image it returned, with a new title
recaption ==
    /\ pc = "captioned"
    /\ calls < MaxCalls
    /\ img' = ret_img
    /\ title' \in TitleInputs
    /\ pc' = "caption"
    /\ UNCHANGED <<clean, gravity, padding, fontsize, images, ret_img, text_size,
                   title_top_left, anchor, calls, first, target, source, files,
                   exit_status>>

----------------------------------------------------------------------------
(* Specifications *)

\* remove_tags on every short title
InitTags ==
    /\ pc = "remove_tags"
    /\ title \in StringsUpTo(TitleChars, MaxTitleLen) \cup TagExamples
    /\ gravity = <<>>
    /\ padding = <<0, 0>>
    /\ fontsize = 1
    /\ images = <<>>
    /\ img = 0
    /\ NothingCalled
    /\ NoPipeline

NextTags == remove_tags_call

SpecTags == InitTags /\ [][NextTags]_vars

\* set_image_title over canvases, paddings, font sizes and normalized gravities
InitPlace ==
    /\ pc = "caption"
    /\ title \in {T_a, T_Title}
    /\ gravity \in {e.g : e \in GravityTable}
    /\ padding \in Pads
    /\ fontsize \in FontSizes
    /\ \E size \in CanvasSizes : images = <<NewImage("RGB", size, "photo")>>
    /\ img = 1
    /\ NothingCalled
    /\ NoPipeline

NextPlace == set_image_title

SpecPlace == InitPlace /\ [][NextPlace]_vars

\* set_image_title over free-form gravity strings
InitGravity ==
    /\ pc = "caption"
    /\ title = T_a
    /\ gravity \in FragStrings(MaxFrags)
    /\ padding = <<10, 10>>
    /\ fontsize = 20
    /\ images = <<NewImage("RGB", <<200, 100>>, "photo")>>
    /\ img = 1
    /\ NothingCalled
    /\ NoPipeline

NextGravity == set_image_title

SpecGravity == InitGravity /\ [][NextGravity]_vars

\* set_image_title called again and again with respelt gravities
InitNorm ==
    /\ pc = "caption"
    /\ title = T_a
    /\ gravity \in BaseGravities
    /\ padding = <<10, 10>>
    /\ fontsize = 20
    /\ images = <<NewImage("RGB", <<200, 100>>, "photo")>>
    /\ img = 1
    /\ NothingCalled
    /\ NoPipeline

NextNorm == set_image_title \/ respell

SpecNorm == InitNorm /\ [][NextNorm]_vars

\* set_image_title over titles, applied again to its own output
InitTitle ==
    /\ pc = "caption"
    /\ title \in TitleInputs
    /\ gravity \in TitleGravities
    /\ padding \in TitlePads
    /\ fontsize \in {1, 2}
    /\ \E size \in CanvasSizes : images = <<NewImage("RGB", size, "photo")>>
    /\ img = 1
    /\ NothingCalled
    /\ NoPipeline

NextTitle == set_image_title \/ recaption

SpecTitle == InitTitle /\ [][NextTitle]_vars

\* one invocation: download, resize, caption, save the records
InitPipe ==
    /\ pc = "download"
    /\ title = <<"a", " ", "[", "b", "]">>
    /\ gravity = <<"b", "o", "t", "t", "o", "m", " ", "r", "i", "g", "h", "t">>
    /\ padding = <<0, 0>>
    /\ fontsize = 2
    /\ images = <<>>
    /\ img = 0
    /\ NothingCalled
    /\ target \in CanvasSizes
    /\ source \in Sources
    /\ files \in {NoFiles, OldFiles}

NextPipe == download_image \/ resize_image \/ set_image_title \/ save_info

SpecPipe == InitPipe /\ [][NextPipe]_vars

Spec == SpecPipe

----------------------------------------------------------------------------
(* Vocabulary of the properties *)

\* w occurs in s as a contiguous substring
Mentions(s, w) ==
    \E i \in 1..Len(s) : i + Len(w) - 1 <= Len(s) /\ SubSeq(s, i, i + Len(w) - 1) = w

\* s without the characters of the set chars
Without(s, chars) == SelectSeq(s, LAMBDA c : c \notin chars)

\* s with every upper-case letter replaced by its lower-case letter
CaseFolded(s) == [i \in 1..Len(s) |-> IF s[i] \in UpperCase THEN ToLower[s[i]] ELSE s[i]]

\* s from its first to its last character that is not whitespace
TrimEnds(s) ==
    LET solid == {i \in 1..Len(s) : s[i] \notin Whitespace}
    IN  IF solid = {} THEN <<>>
        ELSE SubSeq(s, CHOOSE i \in solid : \A k \in solid : i <= k,
                       CHOOSE j \in solid : \A k \in solid : k <= j)

\* every character of s is whitespace (the empty string included)
Blank(s) == \A i \in 1..Len(s) : s[i] \in Whitespace

Partner == [o \in Openers |-> CASE o = "[" -> "]" [] o = "(" -> ")" [] o = "<" -> ">"]

\* the end of the shortest span that opens at i and closes with the bracket
\* of the same kind on the same line, 0 if there is none
SameKindEnd(s, i) ==
    IF s[i] \notin Openers THEN 0
    ELSE LET ends == {j \in (i + 1)..Len(s) :
                        /\ s[j] = Partner[s[i]]
                        /\ \A m \in (i + 1)..(j - 1) : s[m] # "\n"}
         IN  IF ends = {} THEN 0 ELSE CHOOSE j \in ends : \A j2 \in ends : j <= j2

\* s from i on with every same-kind span removed, scanned left to right
RECURSIVE WithoutSameKindSpans(_, _)
WithoutSameKindSpans(s, i) ==
    IF i > Len(s) THEN <<>>
    ELSE IF SameKindEnd(s, i) = 0 THEN <<s[i]>> \o WithoutSameKindSpans(s, i + 1)
    ELSE WithoutSameKindSpans(s, SameKindEnd(s, i) + 1)

\* s with every space that follows a space dropped
OneSpace(s) ==
    LET keep == {i \in 1..Len(s) : ~(i > 1 /\ s[i] = " " /\ s[i - 1] = " ")}
        RECURSIVE From(_)
        From(i) == IF i > Len(s) THEN <<>>
                   ELSE IF i \in keep THEN <<s[i]>> \o From(i + 1) ELSE From(i + 1)
    IN  From(1)

\* the bracket characters of s, in order
Brackets(s) == SelectSeq(s, LAMBDA c : c \in Openers \cup Closers)

\* no opener of s has the closer of its own kind after it on the same line
NoSameKindSpan(s) == \A i \in 1..Len(s) : SameKindEnd(s, i) = 0

UrlWritten == files["url.txt"] = [exists |-> TRUE, content |-> Url]
TitleWritten == files["title.txt"] = [exists |-> TRUE, content |-> title]
PermalinkWritten == files["permalink.txt"] = [exists |-> TRUE, content |-> Permalink]

\* save_info has run (to its end, or to the step that raised)
SaveInfoRan == pc = "saved" \/ (pc = "exited" /\ calls > 0)

G_bottom_right == <<"B", "O", "T", "T", "O", "M", " ", "r", "i", "g", "h", "t">>
G_center == <<"c", "e", "n", "t", "e", "r">>
G_banana == <<"b", "a", "n", "a", "n", "a">>

----------------------------------------------------------------------------
(* Properties *)

\* C1: after set_image_title, for every normalized gravity, text extent
\* (gw, gh), canvas (cw, ch) and padding (px, py), the title's top-left x is
\* px for left, cw - gw - px for right, (cw - gw) / 2 for center, and y is py
\* for top, ch - gh - py for bottom, (ch - gh) / 2 for center, unclamped;
\* "BOTTOM right" with (50,20), (200,100), (10,10) gives (140, 70) and
\* "center" with padding (0,0) gives (75, 40).  (Coordinates times two.)
C1_Placement ==
    pc = "captioned" =>
        LET cw == images[img].size[1]
            ch == images[img].size[2]
            gw == text_size[1]
            gh == text_size[2]
            px == padding[1]
            py == padding[2]
            example == text_size = <<50, 20>> /\ images[img].size = <<200, 100>>
        IN  /\ \A e \in GravityTable :
                  gravity = e.g =>
                      /\ e.h = "left" => title_top_left[1] = 2 * px
                      /\ e.h = "right" => title_top_left[1] = 2 * (cw - gw - px)
                      /\ e.h = "center" => title_top_left[1] = cw - gw
                      /\ e.v = "top" => title_top_left[2] = 2 * py
                      /\ e.v = "bottom" => title_top_left[2] = 2 * (ch - gh - py)
                      /\ e.v = "center" => title_top_left[2] = ch - gh
            /\ (example /\ gravity = G_bottom_right /\ padding = <<10, 10>>)
                  => title_top_left = <<2 * 140, 2 * 70>>
            /\ (example /\ gravity = G_center /\ padding = <<0, 0>>)
                  => title_top_left = <<2 * 75, 2 * 40>>

\* C1 witness: the "BOTTOM right" example has been placed
C1_Witness ==
    /\ pc = "captioned"
    /\ gravity = G_bottom_right
    /\ text_size = <<50, 20>>
    /\ images[img].size = <<200, 100>>
    /\ padding = <<10, 10>>
    /\ title_top_left = <<280, 140>>

\* C2: on the lower-cased gravity the horizontal anchor is left if it
\* contains "left", otherwise right if it contains "right", otherwise
\* center; the vertical anchor is top if it contains "top", otherwise bottom
\* if it contains "bottom", otherwise center; "banana" gives (center, center).
C2_Parsing ==
    pc = "captioned" =>
        LET n == normalize_gravity(gravity)
        IN  /\ anchor[1] = IF Mentions(n, kw_left) THEN "left"
                           ELSE IF Mentions(n, kw_right) THEN "right"
                           ELSE "center"
            /\ anchor[2] = IF Mentions(n, kw_top) THEN "top"
                           ELSE IF Mentions(n, kw_bottom) THEN "bottom"
                           ELSE "center"
            /\ Mentions(CaseFolded(gravity), kw_left) => anchor[1] = "left"
            /\ Mentions(CaseFolded(gravity), kw_top) => anchor[2] = "top"
            /\ gravity = G_banana => anchor = <<"center", "center">>
            \* the anchor is the formula the coordinate was computed with
            /\ title_top_left[1] =
                  CASE anchor[1] = "left" -> 2 * padding[1]
                    [] anchor[1] = "right" ->
                          2 * (images[img].size[1] - text_size[1] - padding[1])
                    [] anchor[1] = "center" -> images[img].size[1] - text_size[1]
            /\ title_top_left[2] =
                  CASE anchor[2] = "top" -> 2 * padding[2]
                    [] anchor[2] = "bottom" ->
                          2 * (images[img].size[2] - text_size[2] - padding[2])
                    [] anchor[2] = "center" -> images[img].size[2] - text_size[2]

\* C2 witness: a gravity naming both left and right was resolved to left
C2_Witness ==
    /\ pc = "captioned"
    /\ Mentions(CaseFolded(gravity), kw_left)
    /\ Mentions(CaseFolded(gravity), kw_right)
    /\ anchor[1] = "left"

\* C3 (as stated): the image download_image returns for an RGBA source is
\* the RGB composite over white, of the same size: a pixel with alpha 0 is
\* white, a pixel with alpha 255 is the source's r, g, b.
C3_AlphaComposite ==
    (source.kind = "image" /\ source.mode = "RGBA" /\ images # <<>>) =>
        /\ images[1].mode = "RGB"
        /\ images[1].size = source.size
        /\ \A i \in 1..Len(source.data) :
              /\ source.data[i][4] = 0 => images[1].data[i] = White
              /\ source.data[i][4] = 255 => images[1].data[i] = SubSeq(source.data[i], 1, 3)

\* C4 (as stated): remove_tags returns the title with every [...], (...) and
\* <...> span removed (shortest match, left to right), every run of spaces
\* collapsed to one space, and the ends trimmed.
C4_TagsRemoved ==
    pc = "returned" =>
        clean = TrimEnds(OneSpace(WithoutSameKindSpans(title, 1)))

\* C5: when the download fails, the invocation ends with exit status 1 and
\* no image; set_image_title and save_info never run and no record is
\* written.
C5_ShortCircuit ==
    source.kind \in {"unreachable", "undecodable"} =>
        /\ pc \in {"download", "exited"}
        /\ pc = "exited" => exit_status = 1
        /\ images = <<>> /\ img = 0 /\ ret_img = 0
        /\ calls = 0
        /\ ~UrlWritten /\ ~TitleWritten /\ ~PermalinkWritten
        /\ files \in {NoFiles, OldFiles}

\* C5 witness: the invocation has ended on a failed download
C5_Witness ==
    /\ source.kind = "undecodable"
    /\ pc = "exited"
    /\ exit_status = 1
    /\ calls = 0

\* C6 (as stated): whenever save_info has run, failed part-way or not,
\* either all three records are written or none is.
C6_AllOrNothing ==
    SaveInfoRan =>
        \/ UrlWritten /\ TitleWritten /\ PermalinkWritten
        \/ ~UrlWritten /\ ~TitleWritten /\ ~PermalinkWritten

\* C6 (amended): the records written are a prefix of url.txt, title.txt,
\* permalink.txt: a record is written only if the ones before it are; all
\* three are once save_info returns, none before it runs.
C6_PrefixWritten ==
    /\ TitleWritten => UrlWritten
    /\ PermalinkWritten => TitleWritten
    /\ pc = "saved" => PermalinkWritten
    /\ ~SaveInfoRan => ~UrlWritten

\* C6 witness: save_info failed after url.txt was written and before title.txt
C6_Witness ==
    /\ SaveInfoRan
    /\ pc = "exited"
    /\ UrlWritten
    /\ ~TitleWritten
    /\ ~PermalinkWritten

\* C7: a call of set_image_title leaves every image that existed before it,
\* its argument among them, as it was; what it returns is another image,
\* the argument's content with the shadow and the text drawn on top.
C7_InputUntouched ==
    [][(pc = "caption" /\ pc' = "captioned") =>
          /\ \A id \in DOMAIN images : images'[id] = images[id]
          /\ ret_img' \notin DOMAIN images
          /\ [images'[ret_img'] EXCEPT !.text = images[img].text] = images[img]
          /\ Len(images'[ret_img'].text) >= Len(images[img].text)]_vars

\* C7 witness: a title has been drawn and the argument carries none
C7_Witness ==
    /\ pc = "captioned"
    /\ Len(images[ret_img].text) = 2
    /\ images[img].text = <<>>
    /\ ret_img # img

\* C8: for an empty or whitespace-only title the image set_image_title
\* returns is identical to its argument, also when the argument is the
\* output of an earlier call.
C8_BlankTitleNoOp ==
    (pc = "captioned" /\ Blank(title)) => images[ret_img] = images[img]

\* C8 witness: a blank title was applied to the captioned output of a call
C8_Witness ==
    /\ pc = "captioned"
    /\ Blank(title)
    /\ title # <<>>
    /\ calls = 2
    /\ images[img].text # <<>>
    /\ images[ret_img] = images[img]

\* C9 (as stated): two gravity strings that differ only in case and in
\* whitespace of any kind, anywhere, resolve to the same anchor pair.
C9_AnyWhitespace ==
    (pc = "captioned" /\ first.set
       /\ CaseFolded(Without(gravity, Whitespace))
            = CaseFolded(Without(first.gravity, Whitespace)))
    => anchor = first.anchor

\* C9 (amended): two gravity strings that differ only in case, in space
\* characters anywhere and in whitespace at the two ends resolve to the same
\* anchor pair.
C9_CaseAndSpaces ==
    (pc = "captioned" /\ first.set
       /\ CaseFolded(TrimEnds(Without(gravity, {" "})))
            = CaseFolded(TrimEnds(Without(first.gravity, {" "}))))
    => anchor = first.anchor

\* C9 witness: a spelling with a space inside a keyword and another case
\* resolved like the first spelling, to an anchor that is not the default
C9_Witness ==
    /\ pc = "captioned"
    /\ first.set
    /\ Mentions(first.gravity, kw_left)
    /\ ~Mentions(Without(gravity, {" "}), kw_left)
    /\ ~Mentions(CaseFolded(gravity), kw_left)
    /\ CaseFolded(TrimEnds(Without(gravity, {" "})))
         = CaseFolded(TrimEnds(Without(first.gravity, {" "})))
    /\ anchor = first.anchor
    /\ anchor[1] = "left"

\* C10 (as stated): a span is removed only when it closes with the bracket
\* of the kind it opens with, so in a title where no opener has its own
\* closer after it every bracket character is still there in the result.
C10_UnbalancedKept ==
    (pc = "returned" /\ NoSameKindSpan(title)) => Brackets(clean) = Brackets(title)

====
